---- MODULE Spec2Model ----
(***************************************************************************)
(* Flycacher (src/src/index.ts): a capacity-based key-value cache over an  *)
(* insertion-ordered Map, with an optional TTL and a miss callback that    *)
(* get() awaits.  The Map is a sequence of entries with distinct keys; a   *)
(* get() is two steps, the synchronous part up to the await and the        *)
(* continuation after the miss callback settles.                           *)
(***************************************************************************)
EXTENDS Integers, Sequences, FiniteSets

\* ---- bounds of the model -------------------------------------------------
MaxCap == 2
MaxPrune == 2
MaxTtl == 1
MaxTime == 2
MaxCalls == 2

Keys == {"a", "b", "c"}
\* what the miss callback can resolve with; 0 is a falsy value
Vals == {0, 1}
\* what the miss callback can throw / reject with
Errs == {1, 2}

NoKey == "none"
\* options.ttl || null : the null of this.ttl
Null == -1

VARIABLES
    values,       \* this.values: Map<K, Entry<V>> in iteration order
    capacity,     \* this.capacity
    pruneAmount,  \* this.pruneAmount
    ttl,          \* this.ttl
    oldest,       \* this.oldest
    now,          \* Date.now()
    calls,        \* get() calls suspended at `await this.missCallback(key)`, oldest first
    lastOp        \* history: the call (or continuation) that ran last

vars == <<values, capacity, pruneAmount, ttl, oldest, now, calls, lastOp>>

\* ---- the Map ---------------------------------------------------------------
Entry(k, v, t) == [key |-> k, value |-> v, entered |-> t]

KeysOf(m) == {m[i].key : i \in DOMAIN m}

\* Map.prototype.has
MapHas(m, k) == k \in KeysOf(m)

\* Map.prototype.get of a present key
MapGet(m, k) == m[CHOOSE i \in DOMAIN m : m[i].key = k]

\* a set that leaves the entry of a present key as it is (first write wins)
MapSetIfAbsent(m, k, e) == IF k \in KeysOf(m) THEN m ELSE Append(m, e)

\* Map.prototype.set: a present key keeps its position, a new key is appended
MapSet(m, k, e) ==
    IF MapHas(m, k)
    THEN [i \in DOMAIN m |-> IF m[i].key = k THEN e ELSE m[i]]
    ELSE Append(m, e)

\* a delete that keeps the named key and drops the others
MapDeleteInverted(m, k) == SelectSeq(m, LAMBDA e : e.key = k)

\* Map.prototype.delete
MapDelete(m, k) == SelectSeq(m, LAMBDA e : e.key # k)

\* ---- constructor -----------------------------------------------------------
\* this.ttl = options.ttl || null
TtlOf(optTtl) == IF optTtl = 0 THEN Null ELSE optTtl

\* ---- prune() ---------------------------------------------------------------
\* a loop that deletes the newest entry first
RECURSIVE CapacityLoopNewestFirst(_)
CapacityLoopNewestFirst(m) ==
    IF m = <<>> THEN m
    ELSE LET r == SubSeq(m, 1, Len(m) - 1)
         IN  IF Len(r) <= capacity - pruneAmount THEN r ELSE CapacityLoopNewestFirst(r)

\* a loop that stops at capacity and forgets the prune amount
RECURSIVE CapacityLoopToCapacity(_)
CapacityLoopToCapacity(m) ==
    IF m = <<>> THEN m
    ELSE LET r == Tail(m)
         IN  IF Len(r) <= capacity THEN r ELSE CapacityLoopToCapacity(r)

\* a loop that ignores the target and deletes every entry
RECURSIVE CapacityLoopToEmpty(_)
CapacityLoopToEmpty(m) == IF m = <<>> THEN m ELSE CapacityLoopToEmpty(Tail(m))

\* the loop of lines 84-89: delete in iteration order, stop at the target
RECURSIVE CapacityLoop(_)
CapacityLoop(m) ==
    IF m = <<>> THEN m
    ELSE LET r == Tail(m)
         IN  IF Len(r) <= capacity - pruneAmount THEN r ELSE CapacityLoop(r)

\* a capacity pass that triggers one entry late
CapacityPassLate(m) == IF Len(m) > capacity + 1 THEN CapacityLoop(m) ELSE m

\* lines 83-90
CapacityPass(m) == IF Len(m) > capacity THEN CapacityLoop(m) ELSE m

\* a guard that tests only `this.ttl !== 0`
TtlEnabledNoNullCheck == ttl # 0

\* line 91: this.ttl && ... && this.ttl > 0
TtlEnabled == ttl # Null /\ ttl # 0 /\ ttl > 0

\* an expiry test that also expires an entry of age exactly ttl
ExpiredEarly(e, expiry) == e.entered <= expiry

\* an expiry test that is one millisecond late
ExpiredLate(e, expiry) == e.entered + 1 < expiry

\* line 95: value.entered < expiry
Expired(e, expiry) == e.entered < expiry

\* a TTL scan that deletes at most one expired entry per call
TtlLoopOnce(m, old, expiry) ==
    IF m = <<>> THEN [values |-> m, oldest |-> old]
    ELSE IF Expired(Head(m), expiry)
         THEN [values |-> Tail(m), oldest |-> old]
         ELSE [values |-> m, oldest |-> Head(m).entered]

\* the loop of lines 94-101
RECURSIVE TtlLoop(_, _, _)
TtlLoop(m, old, expiry) ==
    IF m = <<>> THEN [values |-> m, oldest |-> old]
    ELSE IF Expired(Head(m), expiry)
         THEN TtlLoop(Tail(m), old, expiry)
         ELSE [values |-> m, oldest |-> Head(m).entered]

\* lines 91-106
TtlPass(m, old, t) ==
    IF TtlEnabled /\ Len(m) > 0
    THEN LET expiry == t - ttl
             s == IF old < expiry THEN TtlLoop(m, old, expiry)
                                  ELSE [values |-> m, oldest |-> old]
         IN  IF Len(s.values) = 0 THEN [values |-> s.values, oldest |-> t] ELSE s
    ELSE [values |-> m, oldest |-> old]

\* prune(): the capacity pass, then the TTL pass
PruneResult(m, old, t) == TtlPass(CapacityPass(m), old, t)

\* ---- history ---------------------------------------------------------------
NoRet == [kind |-> "none", val |-> 0]

\* the call before this one, clock ticks aside, was a prune()
PrevWasPrune == lastOp.op = "prune" \/ (lastOp.op = "tick" /\ lastOp.afterPrune)

Op(name, k) ==
    [op |-> name, key |-> k, ret |-> NoRet, resolved |-> NoRet, invoked |-> 0,
     sizeBefore |-> Len(values), capRemoved |-> 0, ttlRemoved |-> 0,
     changed |-> FALSE, present |-> (k \in {values[i].key : i \in DOMAIN values}),
     afterPrune |-> FALSE, maxPending |-> lastOp.maxPending]

\* the most get() calls that have been suspended at the same time so far
PendingWith(n) == IF n > lastOp.maxPending THEN n ELSE lastOp.maxPending

\* the bookkeeping of a prune() that ran on the current state
Pruned(rec) ==
    LET c == CapacityPass(values)
        p == PruneResult(values, oldest, now)
    IN  [rec EXCEPT !.capRemoved = Len(values) - Len(c),
                    !.ttlRemoved = Len(c) - Len(p.values),
                    !.changed = (p.values # values \/ p.oldest # oldest)]

\* the sequence s without its i-th element
Remove(s, i) == [j \in 1..(Len(s) - 1) |-> IF j < i THEN s[j] ELSE s[j + 1]]

\* ---- initial state ---------------------------------------------------------
Init ==
    /\ values = <<>>
    /\ capacity \in 1..MaxCap
    /\ pruneAmount \in 1..MaxPrune
    /\ \E optTtl \in 0..MaxTtl : ttl = TtlOf(optTtl)
    /\ now = 0
    /\ oldest = 0
    /\ calls = <<>>
    /\ lastOp = [op |-> "construct", key |-> NoKey, ret |-> NoRet, resolved |-> NoRet,
                 invoked |-> 0, sizeBefore |-> 0, capRemoved |-> 0,
                 ttlRemoved |-> 0, changed |-> FALSE, present |-> FALSE,
                 afterPrune |-> FALSE, maxPending |-> 0]

\* ---- operations ------------------------------------------------------------
clear ==
    /\ values' = <<>>
    /\ lastOp' = Op("clear", NoKey)
    /\ UNCHANGED <<capacity, pruneAmount, ttl, oldest, now, calls>>

delete(k) ==
    /\ values' = MapDelete(values, k)
    /\ lastOp' = Op("delete", k)
    /\ UNCHANGED <<capacity, pruneAmount, ttl, oldest, now, calls>>

prune ==
    LET p == PruneResult(values, oldest, now)
    IN  /\ values' = p.values
        /\ oldest' = p.oldest
        /\ lastOp' = [Pruned(Op("prune", NoKey)) EXCEPT !.afterPrune = PrevWasPrune]
        /\ UNCHANGED <<capacity, pruneAmount, ttl, now, calls>>

\* a hit test on the truthiness of the cached value, `if (hit && hit.value)`
IsHitTruthy(m, k) == MapHas(m, k) /\ MapGet(m, k).value # 0

\* line 74: if (hit), hit being the Entry object or undefined
IsHit(m, k) == MapHas(m, k)

\* the miss callback is invoked once, at line 77
Invocations == 1

\* a get() that looks the key up first and prunes afterwards
getLookupFirst(k) ==
    LET p == PruneResult(values, oldest, now)
    IN  /\ values' = p.values
        /\ oldest' = p.oldest
        /\ IF IsHit(values, k)
           THEN /\ lastOp' = [Pruned(Op("getHit", k)) EXCEPT
                                 !.ret = [kind |-> "value", val |-> MapGet(values, k).value]]
                /\ UNCHANGED calls
           ELSE /\ Len(calls) < MaxCalls
                /\ calls' = Append(calls,
                                   [key |-> k, invoked |-> Invocations,
                                    changed |-> (p.values # values \/ p.oldest # oldest)])
                /\ lastOp' = [Pruned(Op("getMiss", k)) EXCEPT
                                 !.invoked = Invocations,
                                 !.maxPending = PendingWith(Len(calls) + 1)]
        /\ UNCHANGED <<capacity, pruneAmount, ttl, now>>

\* get(key) up to the return of line 75 or the await of line 77
get(k) ==
    LET p == PruneResult(values, oldest, now)
    IN  /\ values' = p.values
        /\ oldest' = p.oldest
        /\ IF IsHit(p.values, k)
           THEN /\ lastOp' = [Pruned(Op("getHit", k)) EXCEPT
                                 !.ret = [kind |-> "value", val |-> MapGet(p.values, k).value]]
                /\ UNCHANGED calls
           ELSE /\ Len(calls) < MaxCalls
                /\ calls' = Append(calls,
                                   [key |-> k, invoked |-> Invocations,
                                    changed |-> (p.values # values \/ p.oldest # oldest)])
                /\ lastOp' = [Pruned(Op("getMiss", k)) EXCEPT
                                 !.invoked = Invocations,
                                 !.maxPending = PendingWith(Len(calls) + 1)]
        /\ UNCHANGED <<capacity, pruneAmount, ttl, now>>

\* the Entry written at line 78
Stored(k, v) == Entry(k, v, now)

\* lines 77-79 after the miss callback resolved with v
getResolved(c, v) ==
    /\ values' = MapSet(values, calls[c].key, Stored(calls[c].key, v))
    /\ calls' = Remove(calls, c)
    /\ lastOp' = [Op("getResolved", calls[c].key) EXCEPT
                     !.ret = [kind |-> "value", val |-> v],
                     !.resolved = [kind |-> "value", val |-> v],
                     !.invoked = calls[c].invoked,
                     !.changed = TRUE]
    /\ UNCHANGED <<capacity, pruneAmount, ttl, oldest, now>>

\* a continuation that caches a placeholder when the miss callback fails
getRejectedCaching(c, e) ==
    /\ values' = MapSet(values, calls[c].key, Entry(calls[c].key, 0, now))
    /\ calls' = Remove(calls, c)
    /\ lastOp' = [Op("getRejected", calls[c].key) EXCEPT
                     !.ret = [kind |-> "error", val |-> e],
                     !.resolved = [kind |-> "error", val |-> e],
                     !.invoked = calls[c].invoked,
                     !.changed = calls[c].changed]
    /\ UNCHANGED <<capacity, pruneAmount, ttl, oldest, now>>

\* a continuation that invokes the miss callback a second time before it gives up
getRejectedRetrying(c, e) ==
    /\ IF calls[c].invoked < 2
       THEN /\ calls' = [calls EXCEPT ![c].invoked = 2]
            /\ lastOp' = Op("retry", calls[c].key)
       ELSE /\ calls' = Remove(calls, c)
            /\ lastOp' = [Op("getRejected", calls[c].key) EXCEPT
                             !.ret = [kind |-> "error", val |-> e],
                             !.resolved = [kind |-> "error", val |-> e],
                             !.invoked = calls[c].invoked,
                             !.changed = calls[c].changed]
    /\ UNCHANGED <<values, capacity, pruneAmount, ttl, oldest, now>>

\* line 77 when the miss callback threw or rejected with e: the async function rejects
getRejected(c, e) ==
    /\ calls' = Remove(calls, c)
    /\ lastOp' = [Op("getRejected", calls[c].key) EXCEPT
                     !.ret = [kind |-> "error", val |-> e],
                     !.resolved = [kind |-> "error", val |-> e],
                     !.invoked = calls[c].invoked,
                     !.changed = calls[c].changed]
    /\ UNCHANGED <<values, capacity, pruneAmount, ttl, oldest, now>>

\* the clock advances
Tick ==
    /\ now < MaxTime
    /\ now' = now + 1
    /\ lastOp' = [Op("tick", NoKey) EXCEPT !.afterPrune = PrevWasPrune]
    /\ UNCHANGED <<values, capacity, pruneAmount, ttl, oldest, calls>>

Next ==
    \/ clear
    \/ \E k \in Keys : delete(k)
    \/ prune
    \/ \E k \in Keys : get(k)
    \/ \E c \in DOMAIN calls, v \in Vals : getResolved(c, v)
    \/ \E c \in DOMAIN calls, e \in Errs : getRejected(c, e)
    \/ Tick

Spec == Init /\ [][Next]_vars

\* get() calls that do not overlap: a get() starts only when none is suspended
NextSeq ==
    \/ clear
    \/ \E k \in Keys : delete(k)
    \/ prune
    \/ \E k \in Keys : calls = <<>> /\ get(k)
    \/ \E c \in DOMAIN calls, v \in Vals : getResolved(c, v)
    \/ \E c \in DOMAIN calls, e \in Errs : getRejected(c, e)
    \/ Tick

SeqSpec == Init /\ [][NextSeq]_vars

\* a fourth key, so that capacity + MaxCalls entries fit beside one more key
WideKeys == Keys \cup {"d"}

\* one resolved value: the size of the store does not depend on the values
WideVals == {1}

\* the configurations with 1 <= prune <= capacity
InitWide == Init /\ pruneAmount <= capacity

NextWide ==
    \/ clear
    \/ \E k \in WideKeys : delete(k)
    \/ prune
    \/ \E k \in WideKeys : get(k)
    \/ \E c \in DOMAIN calls, v \in WideVals : getResolved(c, v)
    \/ \E c \in DOMAIN calls, e \in Errs : getRejected(c, e)
    \/ Tick

WideSpec == InitWide /\ [][NextWide]_vars

\* ---- properties ------------------------------------------------------------
\* the steps that ran prune(): prune() itself and the synchronous part of get()
PruneOps == {"prune", "getHit", "getMiss"}

\* the steps that started a get()
GetOps == {"getHit", "getMiss"}

\* s is what is left of m after removing a prefix of it
IsSuffixOf(s, m) == \E n \in 0..Len(m) : s = SubSeq(m, n + 1, Len(m))

\* C1 as stated: with 1 <= prune <= capacity, the size is <= capacity right after
\* every get() returns and right after every prune() returns.
C1_SizeWithinCapacityAfterCall ==
    (pruneAmount <= capacity /\ lastOp.op \in {"prune", "getHit", "getResolved", "getRejected"})
        => Len(values) <= capacity

\* C1 as amended: with 1 <= prune <= capacity and get() calls that do not overlap,
\* the size is <= capacity right after every prune() and after every get() that hits
\* or fails, and <= capacity + 1 right after a get() that stored a resolved value.
C1_SizeAfterCall ==
    pruneAmount <= capacity =>
        /\ lastOp.op \in {"prune", "getHit", "getMiss", "getRejected"} => Len(values) <= capacity
        /\ lastOp.op = "getResolved" => Len(values) <= capacity + 1

\* a get() has returned and left the store one entry over capacity
C1_Witness ==
    /\ pruneAmount <= capacity
    /\ lastOp.op = "getResolved"
    /\ Len(values) = capacity + 1

\* C2 as stated: with ttl = T > 0, right after a prune() or get() that ran at time
\* now, no entry with entered + T <= now is left (now = entered + T included).
C2_AbsentAtTtl ==
    (TtlEnabled /\ lastOp.op \in PruneOps)
        => \A i \in DOMAIN values : values[i].entered + ttl > now

\* C2 as amended: with ttl = T > 0 and get() calls that do not overlap, right after a
\* prune() or the prune step of a get() at time now no entry with entered + T < now
\* is left (an entry of age exactly T survives), and the entry a get() stores carries
\* the time of the store.
C2_AbsentAfterTtl ==
    TtlEnabled =>
        /\ lastOp.op \in PruneOps => \A i \in DOMAIN values : values[i].entered + ttl >= now
        /\ lastOp.op = "getResolved" =>
              /\ MapHas(values, lastOp.key)
              /\ MapGet(values, lastOp.key).entered = now

\* a prune() expired an entry and kept a younger one
C2_Witness ==
    /\ TtlEnabled
    /\ lastOp.op \in PruneOps
    /\ lastOp.ttlRemoved > 0
    /\ Len(values) > 0

\* C3 as stated: when a get() fails, the Map and the oldest cursor are what they
\* were right before that get() was called: the call has changed neither.
C3_FailedGetRestoresState ==
    lastOp.op = "getRejected" => ~lastOp.changed

\* C3 as amended: the rejection changes neither the Map nor the oldest cursor, and
\* the synchronous part of the failed get() changed them exactly as prune() does.
C3_FailedGetOnlyPrunes ==
    [][/\ lastOp'.op = "getRejected" => (values' = values /\ oldest' = oldest)
       /\ lastOp'.op = "getMiss" =>
             /\ values' = PruneResult(values, oldest, now).values
             /\ oldest' = PruneResult(values, oldest, now).oldest]_vars

\* a get() failed after its prune step had changed the store
C3_Witness ==
    /\ lastOp.op = "getRejected"
    /\ lastOp.changed

\* C4: a get() whose miss callback fails delivers that failure to its caller, has
\* invoked the miss callback once, and leaves no entry for the key.
C4_FailurePropagates ==
    lastOp.op = "getRejected" =>
        /\ lastOp.ret.kind = "error"
        /\ lastOp.ret = lastOp.resolved
        /\ lastOp.invoked = 1
        /\ ~MapHas(values, lastOp.key)

\* a get() failed with the second of the failures while other keys are cached
C4_Witness ==
    /\ lastOp.op = "getRejected"
    /\ lastOp.ret = [kind |-> "error", val |-> 2]
    /\ Len(values) > 0

\* C5: a get() reaches the miss callback only when the key is absent after its prune
\* step, invokes it once and stores what it resolved with (falsy or not); a get() of
\* a key present after the prune step returns the stored value with no invocation.
C5_MissStoresHitReturns ==
    /\ lastOp.op = "getMiss" => (~MapHas(values, lastOp.key) /\ lastOp.invoked = 1)
    /\ lastOp.op = "getResolved" =>
          /\ lastOp.invoked = 1
          /\ lastOp.ret = lastOp.resolved
          /\ MapHas(values, lastOp.key)
          /\ MapGet(values, lastOp.key).value = lastOp.resolved.val
    /\ lastOp.op = "getHit" =>
          /\ lastOp.invoked = 0
          /\ MapHas(values, lastOp.key)
          /\ lastOp.ret = [kind |-> "value", val |-> MapGet(values, lastOp.key).value]

\* a get() returned a cached falsy value
C5_Witness ==
    /\ lastOp.op = "getHit"
    /\ lastOp.ret = [kind |-> "value", val |-> 0]

\* C6: the capacity pass removes a prefix of the insertion order, and a step that
\* runs prune() (a cache hit included) leaves the surviving entries where they were.
C6_FifoOrder ==
    [][/\ IsSuffixOf(CapacityPass(values), values)
       /\ lastOp'.op \in PruneOps => IsSuffixOf(values', values)]_vars

\* a cache hit whose prune step evicted older entries
C6_Witness ==
    /\ lastOp.op = "getHit"
    /\ lastOp.capRemoved > 0
    /\ Len(values) > 0

\* C7: a prune() that starts over capacity ends with size <= capacity - pruneAmount
\* (size 0 when pruneAmount >= capacity); one that starts within capacity removes
\* nothing in its capacity pass.
C7_CapacityTarget ==
    lastOp.op \in PruneOps =>
        /\ lastOp.sizeBefore > capacity =>
              /\ pruneAmount <= capacity => Len(values) <= capacity - pruneAmount
              /\ pruneAmount >= capacity => Len(values) = 0
        /\ lastOp.sizeBefore <= capacity => lastOp.capRemoved = 0

\* a prune() started over capacity and stopped at the target with entries left
C7_Witness ==
    /\ lastOp.op = "prune"
    /\ lastOp.sizeBefore > capacity
    /\ Len(values) = capacity - pruneAmount
    /\ Len(values) > 0

\* C8: when the capacity pass triggers (with 1 <= prune <= capacity) it removes
\* exactly pruneAmount entries.
C8_RemovesExactlyPruneAmount ==
    (pruneAmount <= capacity /\ lastOp.op \in PruneOps /\ lastOp.capRemoved > 0)
        => lastOp.capRemoved = pruneAmount

\* C9: with ttl omitted or 0 the TTL pass removes nothing, and a prune() that starts
\* within capacity leaves the Map and the oldest cursor as they were.
C9_NoTtlNoExpiry ==
    (ttl = Null /\ lastOp.op \in PruneOps) =>
        /\ lastOp.ttlRemoved = 0
        /\ lastOp.sizeBefore <= capacity => (Len(values) = lastOp.sizeBefore /\ ~lastOp.changed)

\* without a ttl, a prune() kept an entry older than every ttl of the model
C9_Witness ==
    /\ ttl = Null
    /\ lastOp.op = "prune"
    /\ Len(values) > 0
    /\ values[1].entered + MaxTtl < now

\* C10: delete(k) leaves k absent and changes nothing when k was absent, clear()
\* leaves the Map empty, and a get() of a key that is absent (in particular right
\* after its delete() or a clear()) is a miss that invokes the miss callback once.
C10_DeleteClearThenMiss ==
    [][/\ lastOp'.op = "delete" =>
             /\ ~MapHas(values', lastOp'.key)
             /\ \A i \in DOMAIN values' : \E j \in DOMAIN values : values'[i] = values[j]
             /\ ~MapHas(values, lastOp'.key) => (values' = values /\ oldest' = oldest)
       /\ lastOp'.op = "clear" => values' = <<>>
       /\ (lastOp'.op \in GetOps /\ ~MapHas(values, lastOp'.key)) =>
             (lastOp'.op = "getMiss" /\ lastOp'.invoked = 1)
       /\ (lastOp.op = "delete" /\ lastOp'.op \in GetOps /\ lastOp'.key = lastOp.key) =>
             (lastOp'.op = "getMiss" /\ lastOp'.invoked = 1)
       /\ (lastOp.op = "clear" /\ lastOp'.op \in GetOps) =>
             (lastOp'.op = "getMiss" /\ lastOp'.invoked = 1)]_vars

\* a delete() removed a cached key and left the others
C10_Witness ==
    /\ lastOp.op = "delete"
    /\ lastOp.sizeBefore = Len(values) + 1
    /\ Len(values) > 0

\* C11: the entered timestamps never decrease along the Map's iteration order.
C11_TimestampsMonotone ==
    \A i, j \in DOMAIN values : i < j => values[i].entered <= values[j].entered

\* C12: while the Map is not empty, the oldest cursor is not newer than any entry.
C12_OldestConservative ==
    \A i \in DOMAIN values : oldest <= values[i].entered

\* C13: right after a get() stored its resolved value, the key is the last (newest)
\* key of the Map's iteration order, whether or not it was present before the store.
C13_StoredKeyIsNewest ==
    lastOp.op = "getResolved" => values[Len(values)].key = lastOp.key

\* C14: get() calls that overlap on a missing key each invoke the miss callback once
\* (a miss always suspends a call of its own), each returns what its own invocation
\* resolved with, and each store overwrites the value, so the last to settle wins.
C14_NoDedupLastWriteWins ==
    /\ \A c \in DOMAIN calls : calls[c].invoked = 1
    /\ lastOp.op = "getMiss" =>
          /\ Len(calls) > 0
          /\ calls[Len(calls)].key = lastOp.key
    /\ lastOp.op = "getResolved" =>
          /\ lastOp.invoked = 1
          /\ lastOp.ret = lastOp.resolved
          /\ MapHas(values, lastOp.key)
          /\ MapGet(values, lastOp.key).value = lastOp.ret.val

\* a get() settled last on a key another call had stored meanwhile, and its value
\* is the one now cached
C14_Witness ==
    /\ lastOp.op = "getResolved"
    /\ lastOp.present
    /\ lastOp.ret.val = 1
    /\ MapGet(values, lastOp.key).value = 1

\* C15: get() prunes before it looks the key up: it hits exactly when the key is
\* left after its prune step and returns that entry's value; a key that this
\* prune step removed is a miss that invokes the miss callback.
C15_PruneBeforeLookup ==
    [][lastOp'.op \in GetOps =>
          LET p == PruneResult(values, oldest, now)
              k == lastOp'.key
          IN  /\ values' = p.values
              /\ oldest' = p.oldest
              /\ lastOp'.op = "getHit" <=> MapHas(p.values, k)
              /\ lastOp'.op = "getHit" =>
                    lastOp'.ret = [kind |-> "value", val |-> MapGet(p.values, k).value]
              /\ (MapHas(values, k) /\ ~MapHas(p.values, k)) =>
                    (lastOp'.op = "getMiss" /\ lastOp'.invoked = 1)]_vars

\* a get() of the only cached key missed because its own prune step expired the key
C15_Witness ==
    /\ lastOp.op = "getMiss"
    /\ lastOp.present
    /\ lastOp.sizeBefore = 1
    /\ lastOp.ttlRemoved = 1

\* C16 as stated: a prune() that follows a prune() with only clock ticks between
\* them (t1 <= t2) changes neither the Map nor the oldest cursor.
C16_SecondPruneNoOp ==
    (lastOp.op = "prune" /\ lastOp.afterPrune) => ~lastOp.changed

\* C16 as amended: a prune() that follows a prune() changes neither the Map nor the
\* oldest cursor when the clock has not advanced between them, or when no ttl is set.
C16_SecondPruneNoOpSameTime ==
    [][(/\ lastOp'.op = "prune"
        /\ lastOp'.afterPrune
        /\ (lastOp.op = "prune" \/ ~TtlEnabled))
          => (values' = values /\ oldest' = oldest /\ ~lastOp'.changed)]_vars

\* a second prune() in a row found a non-empty store with a ttl and left it alone
C16_Witness ==
    /\ lastOp.op = "prune"
    /\ lastOp.afterPrune
    /\ ~lastOp.changed
    /\ TtlEnabled
    /\ Len(values) > 0
    /\ oldest = values[1].entered
    /\ oldest > 0

\* C17: with a ttl, the TTL pass of a prune() at time now, run on what the capacity
\* pass left, removes nothing and keeps the cursor when oldest >= now - ttl;
\* otherwise it removes exactly the longest prefix of entries with
\* entered < now - ttl and sets oldest to the entered of the first survivor, or to
\* now when none is left.
C17_TtlPassRemovesExpiredPrefix ==
    [][(lastOp'.op \in PruneOps /\ TtlEnabled /\ Len(CapacityPass(values)) > 0) =>
          LET c == CapacityPass(values)
              expiry == now - ttl
          IN  IF oldest >= expiry
              THEN values' = c /\ oldest' = oldest
              ELSE \E n \in 0..Len(c) :
                      /\ values' = SubSeq(c, n + 1, Len(c))
                      /\ \A i \in 1..n : c[i].entered < expiry
                      /\ n < Len(c) => (c[n + 1].entered >= expiry /\ oldest' = c[n + 1].entered)
                      /\ n = Len(c) => oldest' = now]_vars

\* a prune() expired a prefix and moved the cursor to the first survivor, which is
\* of age exactly ttl
C17_Witness ==
    /\ lastOp.op = "prune"
    /\ lastOp.ttlRemoved > 0
    /\ Len(values) > 0
    /\ oldest = values[1].entered
    /\ values[1].entered + ttl = now

\* C18: with a ttl, a get() answered from the cache at time now never returns an
\* entry with entered < now - ttl.
C18_HitNeverExpired ==
    (TtlEnabled /\ lastOp.op = "getHit") =>
        MapGet(values, lastOp.key).entered >= now - ttl

\* C20: with non-overlapping get() calls and 1 <= prune < capacity the capacity pass
\* leaves the newest entry in place, and a get(k) made directly after a get(k) that
\* stored its value is a hit without another invocation of the miss callback.
C20_NewestSurvivesNextGetHits ==
    [][pruneAmount < capacity =>
          /\ Len(values) > 0 =>
                /\ Len(CapacityPass(values)) > 0
                /\ CapacityPass(values)[Len(CapacityPass(values))] = values[Len(values)]
          /\ (lastOp.op = "getResolved" /\ lastOp'.op \in GetOps /\ lastOp'.key = lastOp.key) =>
                /\ lastOp'.op = "getHit"
                /\ lastOp'.invoked = 0
                /\ lastOp'.ret = lastOp.ret]_vars

\* a get() hit the newest key after its prune step had evicted the older entries
C20_Witness ==
    /\ pruneAmount < capacity
    /\ lastOp.op = "getHit"
    /\ lastOp.capRemoved > 0
    /\ Len(values) > 0
    /\ values[Len(values)].key = lastOp.key

\* C19: with 1 <= prune <= capacity the size never exceeds capacity + N, N being the
\* most get() calls suspended at the same time so far (capacity + 1 while get()
\* calls have not overlapped).
C19_SizeWithinCapacityPlusPending ==
    pruneAmount <= capacity => Len(values) <= capacity + lastOp.maxPending

\* two overlapping get() calls have left the store two entries over capacity
C19_Witness ==
    /\ pruneAmount <= capacity
    /\ lastOp.maxPending = 2
    /\ Len(values) = capacity + 2

====
